---- MODULE Spec2Model ----
(***************************************************************************)
(* Wikitext core of the LinguaLibre -> Malayalam Wiktionary pronunciation  *)
(* bot: parse_sections, page_has_audio, build_audio_line and               *)
(* add_pronunciation_to_page of lingualibre_ml_wikt_bot.py.                *)
(*                                                                         *)
(* A text is a sequence of characters.  A character is a one-character     *)
(* string; a Malayalam code point is written by its name, "U+0D09".        *)
(* Offsets are Python offsets: offset p has p characters before it, and    *)
(* the character at offset p of s is s[p + 1].                             *)
(***************************************************************************)
EXTENDS Integers, Sequences, FiniteSets, TLC

VARIABLES wikitext, filename, pc, sections, has_audio, new_wikitext, match, results,
          dry_run, recordings, words_filter, unique_recordings, stats, processed, last_call,
          requests

\* the variables of the text functions and of the filename parser
textvars == <<wikitext, filename, sections, has_audio, new_wikitext, match, results>>

\* the variables of MalayalamPronunciationBot
botvars ==
    <<dry_run, recordings, words_filter, unique_recordings, stats, processed, last_call,
      requests>>

vars == <<textvars, pc, botvars>>

\* no bot is constructed
NoBot ==
    /\ dry_run = TRUE
    /\ recordings = <<>>
    /\ words_filter = {}
    /\ unique_recordings = <<>>
    /\ stats = <<>>
    /\ processed = <<>>
    /\ last_call = <<>>
    /\ requests = <<>>

(***************************************************************************)
(* Constants of the program.                                               *)
(***************************************************************************)
\* the Malayalam word for "Pronunciation", eight code points
PRONUNCIATION_HEADER ==
    <<"U+0D09", "U+0D1A", "U+0D4D", "U+0D1A", "U+0D3E", "U+0D30", "U+0D23", "U+0D02">>

\* the Malayalam word for "Sound", five code points
AUDIO_LABEL == <<"U+0D36", "U+0D2C", "U+0D4D", "U+0D26", "U+0D02">>

\* the accepted titles of an Etymology section
ETYMOLOGY_HEADERS ==
    { <<"U+0D28", "U+0D3F", "U+0D30", "U+0D41", "U+0D15", "U+0D4D", "U+0D24", "U+0D02">>,
      <<"U+0D2A", "U+0D26", "U+0D4B", "U+0D32", "U+0D4D", "U+0D2A", "U+0D24", "U+0D4D",
        "U+0D24", "U+0D3F">>,
      <<"U+0D2A", "U+0D26", "U+0D4B", "U+0D24", "U+0D4D", "U+0D2A", "U+0D24", "U+0D4D",
        "U+0D24", "U+0D3F">> }

\* the lower and upper repetition counts of ={2,6} in header_pattern
MinLevel == 2
MaxLevel == 6

(***************************************************************************)
(* Python string and regular-expression primitives.                        *)
(***************************************************************************)
\* s[a:b]
Slice(s, a, b) == SubSeq(s, a + 1, b)

\* s[a:]
SliceFrom(s, a) == SubSeq(s, a + 1, Len(s))

\* the characters \s matches, among those the model writes
Whitespace == {" ", "\t", "\n", "\r", "\f"}

\* re.IGNORECASE on the letters of the pattern "audio"
Lower(c) ==
    CASE c = "A" -> "a"
      [] c = "U" -> "u"
      [] c = "D" -> "d"
      [] c = "I" -> "i"
      [] c = "O" -> "o"
      [] OTHER -> c

Min(S) == CHOOSE x \in S : \A y \in S : x <= y
Max(S) == CHOOSE x \in S : \A y \in S : x >= y

\* the length of the longest run of characters of S that starts at offset p
RECURSIVE RunOf(_, _, _)
RunOf(s, p, S) ==
    IF p < Len(s) /\ s[p + 1] \in S THEN 1 + RunOf(s, p + 1, S) ELSE 0

\* the length of the longest run of characters other than "\n" at offset p:
\* what "." can match without re.DOTALL
RECURSIVE RunOfDot(_, _)
RunOfDot(s, p) ==
    IF p < Len(s) /\ s[p + 1] # "\n" THEN 1 + RunOfDot(s, p + 1) ELSE 0

\* ^ under re.MULTILINE
LineStart(s, p) == p = 0 \/ s[p] = "\n"

\* $ under re.MULTILINE
LineEnd(s, p) == p = Len(s) \/ s[p + 1] = "\n"

\* the literal t occurs in s at offset p
LiteralAt(s, p, t) ==
    /\ p + Len(t) <= Len(s)
    /\ \A i \in 1..Len(t) : s[p + i] = t[i]

\* str.lstrip("\n")
LStripNewlines(s) == SliceFrom(s, RunOf(s, 0, {"\n"}))

\* str.rstrip("\n")
RECURSIVE RStripNewlines(_)
RStripNewlines(s) ==
    IF Len(s) > 0 /\ s[Len(s)] = "\n" THEN RStripNewlines(SubSeq(s, 1, Len(s) - 1)) ELSE s

\* str.strip()
RECURSIVE Strip(_)
Strip(s) ==
    IF Len(s) > 0 /\ s[1] \in Whitespace THEN Strip(Tail(s))
    ELSE IF Len(s) > 0 /\ s[Len(s)] \in Whitespace THEN Strip(SubSeq(s, 1, Len(s) - 1))
    ELSE s

(***************************************************************************)
(* header_pattern = ^(={2,6})\s*(.+?)\s*\1\s*$ under re.MULTILINE.         *)
(* A backtracking matcher returns the first match in the order of its      *)
(* choices: the longest marker run, then the longest first \s*, then the   *)
(* shortest title, then the longest second \s*, then the longest last \s*. *)
(* Each set below holds the choices of one quantifier that can still be    *)
(* completed to a match.                                                   *)
(***************************************************************************)
\* the last \s*, then $: the marker run was closed at offset p
TrailChoices(s, p) ==
    {w \in 0..RunOf(s, p, Whitespace) : LineEnd(s, p + w)}

\* the second \s*, then \1 (n markers): the title ended at offset p
CloseChoices(s, n, p) ==
    {w \in 0..RunOf(s, p, Whitespace) :
        /\ LiteralAt(s, p + w, [i \in 1..n |-> "="])
        /\ TrailChoices(s, p + w + n) # {}}

\* (.+?): the title starts at offset p
TitleChoices(s, n, p) ==
    {t \in 1..RunOfDot(s, p) : CloseChoices(s, n, p + t) # {}}

\* the first \s*: the opening markers ended at offset p
OpenChoices(s, n, p) ==
    {w \in 0..RunOf(s, p, Whitespace) : TitleChoices(s, n, p + w) # {}}

\* (={2,6}) at offset p
LevelChoices(s, p) ==
    {n \in MinLevel..MaxLevel :
        /\ n <= RunOf(s, p, {"="})
        /\ OpenChoices(s, n, p + n) # {}}

\* header_pattern matches at offset p
HeaderMatches(s, p) == LineStart(s, p) /\ LevelChoices(s, p) # {}

\* The match object of header_pattern: start(), end(), len(group(1)) and the
\* span of group(2).  The matcher fixes one quantifier after the other: p is
\* start(), n the markers taken, ts and te the span of the title, cl the
\* offset after the closing markers.
MatchClosed(s, p, n, ts, te, cl) ==
    [start |-> p, end |-> cl + Max(TrailChoices(s, cl)), level |-> n,
     title_start |-> ts, title_end |-> te]

MatchTitled(s, p, n, ts, te) ==
    MatchClosed(s, p, n, ts, te, te + Max(CloseChoices(s, n, te)) + n)

MatchOpened(s, p, n, ts) ==
    MatchTitled(s, p, n, ts, ts + Min(TitleChoices(s, n, ts)))

MatchLevel(s, p, n) ==
    MatchOpened(s, p, n, p + n + Max(OpenChoices(s, n, p + n)))

\* the match object of header_pattern at offset p (HeaderMatches(s, p) holds)
HeaderMatch(s, p) == MatchLevel(s, p, Max(LevelChoices(s, p)))

\* header_pattern.finditer(s), continued from offset p: the matches in order,
\* each search resuming where the previous match ended
RECURSIVE FindIter(_, _)
RECURSIVE MatchThenRest(_, _)
FindIter(s, p) ==
    IF p >= Len(s) THEN <<>>
    ELSE IF HeaderMatches(s, p) THEN MatchThenRest(s, HeaderMatch(s, p))
    ELSE FindIter(s, p + 1)

\* the match m, then the matches after it
MatchThenRest(s, m) == <<m>> \o FindIter(s, m.end)

(***************************************************************************)
(* parse_sections                                                          *)
(***************************************************************************)
\* the dict appended for the match m, whose section ends at end_pos
Section(text, m, end_pos) ==
    [level         |-> m.level,
     title         |-> Strip(Slice(text, m.title_start, m.title_end)),
     header_text   |-> Slice(text, m.start, m.end),
     start_pos     |-> m.start,
     content_start |-> m.end,
     end_pos       |-> end_pos,
     content       |-> Slice(text, m.end, end_pos)]

\* the end of the section of matches[i]: the start of the next match, or the
\* end of the document
SectionEnd(text, matches, i) ==
    IF i < Len(matches) THEN matches[i + 1].start ELSE Len(text)

\* the loop over the matches
Sections(text, matches) ==
    [i \in 1..Len(matches) |-> Section(text, matches[i], SectionEnd(text, matches, i))]

\* Faulty variant of parse_sections: header_text is the header without the
\* whitespace the pattern's last \s* took, content_start is unchanged
parse_sections_bare_header(text) ==
    LET secs == Sections(text, FindIter(text, 0))
    IN  [i \in 1..Len(secs) |-> [secs[i] EXCEPT !.header_text = Strip(@)]]

parse_sections(text) == Sections(text, FindIter(text, 0))

(***************************************************************************)
(* Optional[...]: None, or a value                                         *)
(***************************************************************************)
None == <<>>
Some(v) == <<v>>

(***************************************************************************)
(* page_has_audio: audio_pattern = \{\{\s*audio\s*\| under re.IGNORECASE   *)
(***************************************************************************)
\* the pattern's word "audio" matches at offset p, whatever the letter case
AudioWordAt(s, p) ==
    LET word == <<"a", "u", "d", "i", "o">>
    IN  /\ p + Len(word) <= Len(s)
        /\ \A i \in 1..Len(word) : Lower(s[p + i]) = word[i]

\* audio_pattern matches at offset p
AudioMatches(s, p) ==
    /\ LiteralAt(s, p, <<"{", "{">>)
    /\ \E w1 \in 0..RunOf(s, p + 2, Whitespace) :
          /\ AudioWordAt(s, p + 2 + w1)
          /\ \E w2 \in 0..RunOf(s, p + 2 + w1 + 5, Whitespace) :
                LiteralAt(s, p + 2 + w1 + 5 + w2, <<"|">>)

\* Faulty variant of page_has_audio: the pattern without re.IGNORECASE
page_has_audio_case_sensitive(text) ==
    \E p \in 0..Len(text) :
        /\ LiteralAt(text, p, <<"{", "{">>)
        /\ \E w1 \in 0..RunOf(text, p + 2, Whitespace) :
              /\ LiteralAt(text, p + 2 + w1, <<"a", "u", "d", "i", "o">>)
              /\ \E w2 \in 0..RunOf(text, p + 2 + w1 + 5, Whitespace) :
                    LiteralAt(text, p + 2 + w1 + 5 + w2, <<"|">>)

\* bool(audio_pattern.search(wikitext))
page_has_audio(text) == \E p \in 0..Len(text) : AudioMatches(text, p)

(***************************************************************************)
(* find_pronunciation_section, build_audio_line                            *)
(***************************************************************************)
find_pronunciation_section(secs) ==
    LET found == {k \in 1..Len(secs) : secs[k].title = PRONUNCIATION_HEADER}
    IN  IF found = {} THEN None ELSE Some(secs[Min(found)])

\* Faulty variant of build_audio_line: a file link in place of the template
build_audio_line_file_link(fname) ==
    <<"*", " ">> \o AUDIO_LABEL \o <<":", " ", "[", "[", "F", "i", "l", "e", ":">> \o fname
        \o <<"]", "]">>

\* Faulty variant of build_audio_line: the braces of the f-string not doubled
build_audio_line_single_braces(fname) ==
    <<"*", " ">> \o AUDIO_LABEL \o <<":", " ", "{", "a", "u", "d", "i", "o", "|">>
        \o fname \o <<"}">>

build_audio_line(fname) ==
    <<"*", " ">> \o AUDIO_LABEL \o <<":", " ", "{", "{", "a", "u", "d", "i", "o", "|">>
        \o fname \o <<"}", "}">>

(***************************************************************************)
(* add_pronunciation_to_page                                               *)
(***************************************************************************)
\* Faulty variant of Case A: the newlines after the header are not skipped
AddAtContentStart(text, audio_line, pron_section) ==
    LET insert_pos == pron_section.content_start
    IN  Slice(text, 0, insert_pos) \o audio_line \o <<"\n">> \o SliceFrom(text, insert_pos)

\* Case A: the Pronunciation section exists, the audio line goes under it
AddToExistingSection(text, audio_line, pron_section) ==
    LET content_start == pron_section.content_start
        remaining     == SliceFrom(text, content_start)
        stripped      == LStripNewlines(remaining)
        skip_count    == Len(remaining) - Len(stripped)
        insert_pos    == content_start + skip_count
    IN  Slice(text, 0, insert_pos) \o audio_line \o <<"\n">> \o SliceFrom(text, insert_pos)

\* Faulty variant of Case B: rstrip() in place of rstrip("\n")
CreateNewSectionStripAll(text, audio_line, secs) ==
    LET new_section ==
            <<"\n", "=", "=">> \o PRONUNCIATION_HEADER \o <<"=", "=", "\n">>
                \o audio_line \o <<"\n">>
        rstrip(t) == SubSeq(t, 1, Len(Strip(<<"x">> \o t)) - 1)
    IN  IF secs = <<>>
        THEN rstrip(text) \o <<"\n">> \o new_section \o <<"\n">>
        ELSE LET first_section_pos == secs[1].start_pos
                 preamble == rstrip(Slice(text, 0, first_section_pos))
                 rest     == SliceFrom(text, first_section_pos)
             IN  IF preamble # <<>>
                 THEN preamble \o <<"\n">> \o new_section \o <<"\n">> \o rest
                 ELSE new_section \o <<"\n">> \o rest

\* Faulty variant of Case B: the empty preamble is not told apart
CreateNewSectionOneBranch(text, audio_line, secs) ==
    LET new_section ==
            <<"\n", "=", "=">> \o PRONUNCIATION_HEADER \o <<"=", "=", "\n">>
                \o audio_line \o <<"\n">>
    IN  IF secs = <<>>
        THEN RStripNewlines(text) \o <<"\n">> \o new_section \o <<"\n">>
        ELSE LET first_section_pos == secs[1].start_pos
                 preamble == RStripNewlines(Slice(text, 0, first_section_pos))
                 rest     == SliceFrom(text, first_section_pos)
             IN  preamble \o <<"\n">> \o new_section \o <<"\n">> \o rest

\* Faulty variant of Case B: no newline between the content and the new section
CreateNewSectionNoSeparator(text, audio_line, secs) ==
    LET new_section ==
            <<"\n", "=", "=">> \o PRONUNCIATION_HEADER \o <<"=", "=", "\n">>
                \o audio_line \o <<"\n">>
    IN  IF secs = <<>>
        THEN RStripNewlines(text) \o new_section \o <<"\n">>
        ELSE LET first_section_pos == secs[1].start_pos
                 preamble == RStripNewlines(Slice(text, 0, first_section_pos))
                 rest     == SliceFrom(text, first_section_pos)
             IN  IF preamble # <<>>
                 THEN preamble \o <<"\n">> \o new_section \o <<"\n">> \o rest
                 ELSE new_section \o <<"\n">> \o rest

\* Case B: no Pronunciation section, a new one is created
CreateNewSection(text, audio_line, secs) ==
    LET new_section ==
            <<"\n", "=", "=">> \o PRONUNCIATION_HEADER \o <<"=", "=", "\n">>
                \o audio_line \o <<"\n">>
    IN  IF secs = <<>>
        THEN RStripNewlines(text) \o <<"\n">> \o new_section \o <<"\n">>
        ELSE LET first_section_pos == secs[1].start_pos
                 preamble == RStripNewlines(Slice(text, 0, first_section_pos))
                 rest     == SliceFrom(text, first_section_pos)
             IN  IF preamble # <<>>
                 THEN preamble \o <<"\n">> \o new_section \o <<"\n">> \o rest
                 ELSE new_section \o <<"\n">> \o rest

\* Faulty variant of add_pronunciation_to_page: existing audio is looked for
\* in the Pronunciation section only
add_pronunciation_guard_in_section(text, fname) ==
    LET audio_line   == build_audio_line(fname)
        secs         == parse_sections(text)
        pron_section == find_pronunciation_section(secs)
    IN  IF pron_section # None
        THEN IF page_has_audio(pron_section[1].content) THEN None
             ELSE Some(AddToExistingSection(text, audio_line, pron_section[1]))
        ELSE Some(CreateNewSection(text, audio_line, secs))

add_pronunciation_to_page(text, fname) ==
    IF page_has_audio(text) THEN None
    ELSE LET audio_line   == build_audio_line(fname)
             secs         == parse_sections(text)
             pron_section == find_pronunciation_section(secs)
         IN  IF pron_section # None
             THEN Some(AddToExistingSection(text, audio_line, pron_section[1]))
             ELSE Some(CreateNewSection(text, audio_line, secs))

(***************************************************************************)
(* The inputs.  A document is a few pieces written one after the other.    *)
(* A structure piece is a marker run, a line break, a blank, a letter, the *)
(* Pronunciation title, an Etymology header line or the opening of an      *)
(* audio template; an audio piece is a part of such an opening, or         *)
(* something close to one.                                                 *)
(***************************************************************************)
MaxPieces == 5
MaxAudioPieces == 5

\* a level-2 header line with the first accepted Etymology title
EtymologyHeaderLine ==
    <<"=", "=">>
        \o <<"U+0D28", "U+0D3F", "U+0D30", "U+0D41", "U+0D15", "U+0D4D", "U+0D24", "U+0D02">>
        \o <<"=", "=">>

StructurePieces ==
    { <<"=", "=">>, <<"\n">>, <<" ">>, <<"x">>, PRONUNCIATION_HEADER, EtymologyHeaderLine,
      <<"{", "{", "a", "u", "d", "i", "o", "|">> }

AudioPieces ==
    { <<"{", "{">>, <<"{">>, <<"a", "u", "d", "i", "o">>, <<"A", "u", "D", "I", "O">>,
      <<" ">>, <<"|">> }

RECURSIVE Flatten(_)
Flatten(ps) == IF ps = <<>> THEN <<>> ELSE Head(ps) \o Flatten(Tail(ps))

\* text is made of at most n pieces of P
IsText(text, P, n) == \E k \in 0..n : \E ps \in [1..k -> P] : text = Flatten(ps)

\* text is a document of the model
IsDoc(text) ==
    \/ IsText(text, StructurePieces, MaxPieces)
    \/ IsText(text, AudioPieces, MaxAudioPieces)

Filenames == { <<"f">>, <<"g", ".", "w">> }

(***************************************************************************)
(* The state machine: a document is drawn, and one of the three functions  *)
(* is called on it.                                                        *)
(***************************************************************************)
Init ==
    /\ IsDoc(wikitext)
    /\ filename = <<>>
    /\ pc = "start"
    /\ sections = <<>>
    /\ has_audio = FALSE
    /\ new_wikitext = None
    /\ match = None
    /\ results = <<>>
    /\ NoBot

CallParseSections ==
    /\ pc = "start"
    /\ sections' = parse_sections(wikitext)
    /\ pc' = "parsed"
    /\ UNCHANGED <<wikitext, filename, has_audio, new_wikitext, match, results>>
    /\ UNCHANGED botvars

CallPageHasAudio ==
    /\ pc = "start"
    /\ has_audio' = page_has_audio(wikitext)
    /\ pc' = "checked"
    /\ UNCHANGED <<wikitext, filename, sections, new_wikitext, match, results>>
    /\ UNCHANGED botvars

\* sections is the local of that name, which the guard leaves unset when it
\* returns first
CallAddPronunciationToPage ==
    /\ pc = "start"
    /\ \E f \in Filenames :
          /\ filename' = f
          /\ new_wikitext' = add_pronunciation_to_page(wikitext, f)
    /\ sections' = IF page_has_audio(wikitext) THEN <<>> ELSE parse_sections(wikitext)
    /\ pc' = "done"
    /\ UNCHANGED <<wikitext, has_audio, match, results>>
    /\ UNCHANGED botvars

Next == CallParseSections \/ CallPageHasAudio \/ CallAddPronunciationToPage

Spec == Init /\ [][Next]_vars

(***************************************************************************)
(* Vocabulary of the properties.                                           *)
(***************************************************************************)
IsPrefix(t, s) == Len(t) <= Len(s) /\ SubSeq(s, 1, Len(t)) = t

IsSuffix(t, s) == Len(t) <= Len(s) /\ SubSeq(s, Len(s) - Len(t) + 1, Len(s)) = t

\* the offsets of s at which t occurs
Occurrences(t, s) == {p \in 0..Len(s) : LiteralAt(s, p, t)}

RECURSIVE ConcatSections(_)
ConcatSections(secs) ==
    IF secs = <<>> THEN <<>>
    ELSE Head(secs).header_text \o Head(secs).content \o ConcatSections(Tail(secs))

\* the header line the editor writes: ==<Pronunciation title>==
PronunciationHeaderLine == <<"=", "=">> \o PRONUNCIATION_HEADER \o <<"=", "=">>

\* the section structure of the document that was drawn
InputSections == parse_sections(wikitext)

\* the indexes of the sections of secs titled with the Pronunciation header
PronIndexes(secs) == {k \in 1..Len(secs) : secs[k].title = PRONUNCIATION_HEADER}

\* the editor ran on a document without audio
RanWithoutAudio == pc = "done" /\ ~page_has_audio(wikitext)

\* the editor ran on a document without audio that has a Pronunciation section
RanOnExistingSection ==
    pc = "done" /\ ~page_has_audio(wikitext) /\ PronIndexes(InputSections) # {}

\* the editor ran on a document without audio and without a Pronunciation section
RanOnNoPronSection ==
    pc = "done" /\ ~page_has_audio(wikitext) /\ PronIndexes(InputSections) = {}

(***************************************************************************)
(* C1  Idempotence guard: when page_has_audio is true of the document,     *)
(* add_pronunciation_to_page returns None for every filename, whatever the *)
(* sections of the document are.                                           *)
(***************************************************************************)
C1_IdempotenceGuard ==
    (pc = "done" /\ page_has_audio(wikitext)) => new_wikitext = None

\* an audio template outside an existing Pronunciation section, and None returned
C1_Witness ==
    /\ pc = "done"
    /\ page_has_audio(wikitext)
    /\ \E k \in PronIndexes(InputSections) : ~page_has_audio(InputSections[k].content)
    /\ new_wikitext = None

(***************************************************************************)
(* C2  Insertion invariant: on a document without audio that has a         *)
(* Pronunciation section, the output is doc[:p] + audio_line + "\n" +      *)
(* doc[p:], p being the offset after the header of the first such section  *)
(* and the newlines that follow it.                                        *)
(***************************************************************************)
\* the offset p, secs being the sections of the document
C2_OffsetIn(secs) ==
    LET sec == secs[Min(PronIndexes(secs))]
        hdr_end == sec.start_pos + Len(sec.header_text)
    IN  hdr_end + RunOf(wikitext, hdr_end, {"\n"})

C2_InsertionOffset == C2_OffsetIn(InputSections)

\* the output is the document with the audio line and a newline put at offset p
C2_InsertedAt(p) ==
    new_wikitext = Some(Slice(wikitext, 0, p) \o build_audio_line(filename) \o <<"\n">>
                          \o SliceFrom(wikitext, p))

C2_InsertionInvariant ==
    (RanWithoutAudio /\ PronIndexes(sections) # {}) =>
        C2_InsertedAt(C2_OffsetIn(sections))

\* newlines were skipped after the header, and text follows the inserted line
C2_Witness ==
    /\ RanOnExistingSection
    /\ new_wikitext # None
    /\ LET sec == InputSections[Min(PronIndexes(InputSections))]
       IN  /\ C2_InsertionOffset > sec.content_start
           /\ C2_InsertionOffset < Len(wikitext)

(***************************************************************************)
(* C3  First-section invariant: when a new Pronunciation section is        *)
(* created, its header line is in the output before every header of the    *)
(* input, and it is sections[0] of the output when the input had sections. *)
(***************************************************************************)
C3_FirstSection ==
    RanOnNoPronSection =>
        LET out   == new_wikitext[1]
            shift == Len(out) - Len(wikitext)
            block == PronunciationHeaderLine \o <<"\n">> \o build_audio_line(filename)
                        \o <<"\n">>
        IN  /\ \E q \in Occurrences(block, out) :
                  /\ LineStart(out, q)
                  /\ \A k \in 1..Len(InputSections) :
                        /\ q < InputSections[k].start_pos + shift
                        /\ LiteralAt(out, InputSections[k].start_pos + shift,
                                     InputSections[k].header_text)
            /\ InputSections # <<>> =>
                  LET first == parse_sections(out)[1]
                  IN  /\ first.title = PRONUNCIATION_HEADER
                      /\ first.level = 2

\* a preamble, then an Etymology header and a second header, and a new section
C3_Witness ==
    /\ RanOnNoPronSection
    /\ new_wikitext # None
    /\ Len(InputSections) >= 2
    /\ InputSections[1].start_pos > 0
    /\ \E k \in 1..Len(InputSections) : InputSections[k].title \in ETYMOLOGY_HEADERS

(***************************************************************************)
(* C4  Round trip: the preamble followed by header_text + content of each  *)
(* section, in order, is the document.                                     *)
(***************************************************************************)
C4_RoundTrip ==
    pc = "parsed" =>
        LET preamble == IF sections = <<>> THEN wikitext
                        ELSE Slice(wikitext, 0, sections[1].start_pos)
        IN  preamble \o ConcatSections(sections) = wikitext

\* a preamble and two sections, the first header taking a newline with it
C4_Witness ==
    /\ pc = "parsed"
    /\ Len(sections) >= 2
    /\ sections[1].start_pos > 0
    /\ sections[1].header_text[Len(sections[1].header_text)] = "\n"
(***************************************************************************)
(* C5  On a document without audio that has a Pronunciation section, the   *)
(* Pronunciation header is still a header of the output and the first      *)
(* non-blank line of its section is the audio line, on a line of its own.  *)
(***************************************************************************)
\* the first line of s that has a character other than whitespace, or <<>>
RECURSIVE FirstNonBlankLine(_)
FirstNonBlankLine(s) ==
    IF s = <<>> THEN <<>>
    ELSE LET n    == RunOfDot(s, 0)
             line == Slice(s, 0, n)
         IN  IF Strip(line) # <<>> THEN line
             ELSE IF n >= Len(s) THEN <<>>
             ELSE FirstNonBlankLine(SliceFrom(s, n + 1))

C5_AudioLineFirstInSection ==
    RanOnExistingSection =>
        LET secs_out == parse_sections(new_wikitext[1])
            sec      == InputSections[Min(PronIndexes(InputSections))]
        IN  \E j \in PronIndexes(secs_out) :
               /\ secs_out[j].start_pos = sec.start_pos
               /\ FirstNonBlankLine(secs_out[j].content) = build_audio_line(filename)

(***************************************************************************)
(* C6  Byte preservation: on a document without audio the output is        *)
(* doc[:i] + inserted_text + doc[i:] for some offset i, in all branches.   *)
(* As amended: that holds in the existing-section branch; in the two       *)
(* new-section branches the newlines that end the preamble (the text       *)
(* before the first header, or the whole of a document without sections)   *)
(* are removed and every other character is kept.                          *)
(***************************************************************************)
\* out is kept + inserted + tail for some inserted text of at least n characters
InsertedBetween(kept, tail, out, n) ==
    /\ IsPrefix(kept, out)
    /\ IsSuffix(tail, out)
    /\ Len(out) >= Len(kept) + Len(tail) + n

C6_BytePreservation_Original ==
    (pc = "done" /\ ~page_has_audio(wikitext)) =>
        \E i \in 0..Len(wikitext) :
            InsertedBetween(Slice(wikitext, 0, i), SliceFrom(wikitext, i), new_wikitext[1], 0)

\* the offset where the preamble ends, secs being the sections of the document
PreambleEndIn(secs) == IF secs = <<>> THEN Len(wikitext) ELSE secs[1].start_pos

PreambleEnd == PreambleEndIn(InputSections)

C6_BytePreservation ==
    RanWithoutAudio =>
        LET out  == new_wikitext[1]
            n    == Len(build_audio_line(filename)) + 1
            e    == PreambleEndIn(sections)
        IN  IF PronIndexes(sections) # {}
            THEN \E i \in 0..Len(wikitext) :
                    InsertedBetween(Slice(wikitext, 0, i), SliceFrom(wikitext, i), out, n)
            ELSE InsertedBetween(RStripNewlines(Slice(wikitext, 0, e)),
                                 SliceFrom(wikitext, e), out, n)

\* a new section after a preamble that ends in blanks and several newlines
C6_Witness ==
    /\ RanOnNoPronSection
    /\ new_wikitext # None
    /\ InputSections # <<>>
    /\ LET kept == RStripNewlines(Slice(wikitext, 0, PreambleEnd))
       IN  /\ Len(kept) + 2 <= PreambleEnd
           /\ kept # <<>>
           /\ kept[Len(kept)] = " "

(***************************************************************************)
(* C7  New section in a document with sections: the output is the preamble *)
(* without its trailing newlines and one newline (nothing when the         *)
(* preamble is empty), a blank line, the Pronunciation header line, the    *)
(* audio line, one newline, and the text from the first header on.         *)
(* As amended: nothing also when the preamble is made of newlines only.    *)
(***************************************************************************)
\* the text of a new section after the lead: blank line, header line, audio
\* line, one newline, then rest
C7_SectionThen(lead, rest) ==
    lead \o <<"\n">> \o PronunciationHeaderLine \o <<"\n">> \o build_audio_line(filename)
        \o <<"\n">> \o <<"\n">> \o rest

C7_NewSectionWithSections_Original ==
    (RanOnNoPronSection /\ InputSections # <<>>) =>
        LET preamble == Slice(wikitext, 0, PreambleEnd)
            lead     == IF preamble = <<>> THEN <<>>
                        ELSE RStripNewlines(preamble) \o <<"\n">>
        IN  new_wikitext = Some(C7_SectionThen(lead, SliceFrom(wikitext, PreambleEnd)))

C7_NewSectionWithSections ==
    RanWithoutAudio =>
        LET e        == PreambleEndIn(sections)
            preamble == RStripNewlines(Slice(wikitext, 0, e))
            lead     == IF preamble = <<>> THEN <<>> ELSE preamble \o <<"\n">>
        IN  (PronIndexes(sections) = {} /\ sections # <<>>) =>
                new_wikitext = Some(C7_SectionThen(lead, SliceFrom(wikitext, e)))

\* a preamble made of newlines only, before the first header
C7_Witness ==
    /\ RanOnNoPronSection
    /\ new_wikitext # None
    /\ InputSections # <<>>
    /\ PreambleEnd > 0
    /\ RStripNewlines(Slice(wikitext, 0, PreambleEnd)) = <<>>

(***************************************************************************)
(* C8  New section in a document without sections: the output is the       *)
(* original content, one blank line, the Pronunciation header line, one    *)
(* audio line and a trailing blank line, the original content verbatim     *)
(* before the new header.  As amended: the original content without its    *)
(* trailing newlines.                                                      *)
(***************************************************************************)
\* what follows the content: the end of its last line, one blank line, the
\* header line, the audio line, a blank line
C8_Appended ==
    <<"\n", "\n">> \o PronunciationHeaderLine \o <<"\n">> \o build_audio_line(filename)
        \o <<"\n", "\n">>

C8_NewSectionNoSections_Original ==
    (RanOnNoPronSection /\ InputSections = <<>>) =>
        /\ IsPrefix(wikitext, new_wikitext[1])
        /\ IsSuffix(C8_Appended, new_wikitext[1])
        /\ \A p \in Len(wikitext)..(Len(new_wikitext[1]) - Len(C8_Appended)) - 1 :
              new_wikitext[1][p + 1] = "\n"

C8_NewSectionNoSections ==
    (RanWithoutAudio /\ sections = <<>>) =>
        new_wikitext = Some(RStripNewlines(wikitext) \o C8_Appended)

\* content that ends in two or more newlines, and no section
C8_Witness ==
    /\ RanOnNoPronSection
    /\ new_wikitext # None
    /\ InputSections = <<>>
    /\ RStripNewlines(wikitext) # <<>>
    /\ Len(RStripNewlines(wikitext)) + 2 <= Len(wikitext)

(***************************************************************************)
(* C9  The editor returns for every document and filename: None exactly    *)
(* when the document has an audio construct, otherwise a document that     *)
(* contains "* <AUDIO_LABEL>: {{audio|<filename>}}".                       *)
(***************************************************************************)
LowerText(t) == [k \in 1..Len(t) |-> Lower(t[k])]

\* two opening braces, optional whitespace, the word audio in any letter
\* case, optional whitespace, a "|", somewhere in s
ContainsAudioConstruct(s) ==
    \E i \in 0..Len(s) :
        /\ LiteralAt(s, i, <<"{", "{">>)
        /\ \E j \in (i + 2)..(Len(s) - 1) :
              /\ s[j + 1] = "|"
              /\ LowerText(Strip(Slice(s, i + 2, j))) = <<"a", "u", "d", "i", "o">>

C9_ExpectedLine ==
    <<"*", " ", "U+0D36", "U+0D2C", "U+0D4D", "U+0D26", "U+0D02", ":", " ",
      "{", "{", "a", "u", "d", "i", "o", "|">> \o filename \o <<"}", "}">>

C9_TotalAndOnlyIfNeeded ==
    pc = "done" =>
        /\ new_wikitext = None <=> ContainsAudioConstruct(wikitext)
        /\ new_wikitext # None =>
              /\ Len(new_wikitext) = 1
              /\ Occurrences(C9_ExpectedLine, new_wikitext[1]) # {}

\* a document with a malformed header and no audio construct, and a new text
C9_Witness ==
    /\ pc = "done"
    /\ ~ContainsAudioConstruct(wikitext)
    /\ Occurrences(<<"=", "=">>, wikitext) # {}
    /\ InputSections = <<>>
    /\ new_wikitext # None
    /\ Occurrences(C9_ExpectedLine, new_wikitext[1]) # {}

(***************************************************************************)
(* C10  page_has_audio is true exactly of the documents that contain two   *)
(* opening braces, optional whitespace, the word audio in any letter case, *)
(* optional whitespace and a "|".                                          *)
(***************************************************************************)
C10_AudioDetector ==
    pc = "checked" => (has_audio <=> ContainsAudioConstruct(wikitext))

\* upper-case letters and whitespace on both sides of the word, detected
C10_Witness ==
    /\ pc = "checked"
    /\ has_audio
    /\ Occurrences(<<"{", "{", " ", "A", "u", "D", "I", "O", " ", "|">>, wikitext) # {}

(***************************************************************************)
(* C11  A header is one full line: N markers, a title and N closing        *)
(* markers with N in 2..6, alone on the line but for whitespace; markers   *)
(* and title that are not on one line are not a header; the level is N.    *)
(***************************************************************************)
\* the header of section sec without the whitespace that ends it
C11_HeaderLine(sec) == Strip(sec.header_text)

\* n markers
Markers(n) == [i \in 1..n |-> "="]

C11_SingleLineHeader ==
    pc = "parsed" =>
        \A k \in 1..Len(sections) :
            LET sec == sections[k]
                h   == C11_HeaderLine(sec)
            IN  /\ sec.level \in MinLevel..MaxLevel
                /\ LineStart(wikitext, sec.start_pos)
                /\ IsPrefix(Markers(sec.level), h)
                /\ IsSuffix(Markers(sec.level), h)
                /\ Len(h) > 2 * sec.level
                /\ \A i \in 1..Len(h) : h[i] # "\n"

(***************************************************************************)
(* The filename parser.                                                    *)
(* LL_FILENAME_REGEX =                                                     *)
(*     ^LL-Q\d+\s*\([a-z]{3}\)-(.+?)-(.+)\.(wav|ogg|mp3|flac)$             *)
(* used with match(), without re.MULTILINE: ^ is offset 0, and $ is the    *)
(* end of the string or the offset before a newline that ends the string.  *)
(***************************************************************************)
\* the characters \d matches, among those the model writes
Digits == {"0", "1", "2", "3", "4", "5", "6", "7", "8", "9"}

\* the characters [a-z] matches
LowerLetters ==
    {"a", "b", "c", "d", "e", "f", "g", "h", "i", "j", "k", "l", "m",
     "n", "o", "p", "q", "r", "s", "t", "u", "v", "w", "x", "y", "z"}

\* the alternatives of (wav|ogg|mp3|flac), in the order of the pattern
Extensions ==
    << <<"w", "a", "v">>, <<"o", "g", "g">>, <<"m", "p", "3">>, <<"f", "l", "a", "c">> >>

\* $ without re.MULTILINE
StringEnd(s, p) == p = Len(s) \/ (p = Len(s) - 1 /\ s[Len(s)] = "\n")

\* ^LL-Q\d+\s*\([a-z]{3}\)- : the offset after the prefix, or -1.  Neither
\* \d+ nor \s* can give a character back, "(" being no digit and no whitespace.
PrefixEnd(s) ==
    LET d == RunOf(s, 4, Digits)
        w == RunOf(s, 4 + d, Whitespace)
        q == 4 + d + w
    IN  IF /\ LiteralAt(s, 0, <<"L", "L", "-", "Q">>)
           /\ d >= 1
           /\ LiteralAt(s, q, <<"(">>)
           /\ q + 4 <= Len(s)
           /\ \A i \in 1..3 : s[q + 1 + i] \in LowerLetters
           /\ LiteralAt(s, q + 4, <<")", "-">>)
        THEN q + 6
        ELSE -1

\* \.(wav|ogg|mp3|flac)$ at offset p: the alternatives that match there
ExtChoices(s, p) ==
    {x \in 1..Len(Extensions) :
        /\ LiteralAt(s, p, <<".">> \o Extensions[x])
        /\ StringEnd(s, p + 1 + Len(Extensions[x]))}

\* (.+), then the extension: the word starts at offset p
WordChoices(s, p) ==
    {t \in 1..RunOfDot(s, p) : ExtChoices(s, p + t) # {}}

\* Faulty variant of SpeakerChoices: a speaker without blanks, ([^ ]+?)
SpeakerChoicesNoBlank(s, p) ==
    {t \in 1..RunOfDot(s, p) :
        /\ \A i \in 1..t : s[p + i] # " "
        /\ LiteralAt(s, p + t, <<"-">>)
        /\ WordChoices(s, p + t + 1) # {}}

\* (.+?), then "-" and the word: the speaker starts at offset p
SpeakerChoices(s, p) ==
    {t \in 1..RunOfDot(s, p) :
        /\ LiteralAt(s, p + t, <<"-">>)
        /\ WordChoices(s, p + t + 1) # {}}

\* the groups of the match that starts with a speaker of t characters at p
FilenameGroups(s, p, t) ==
    LET ws == p + t + 1
        wl == Max(WordChoices(s, ws))
    IN  [speaker   |-> Slice(s, p, p + t),
         word      |-> Slice(s, ws, ws + wl),
         extension |-> Extensions[Min(ExtChoices(s, ws + wl))]]

\* Faulty variant of LL_FILENAME_REGEX.match: the speaker is greedy, (.+)
LL_FILENAME_REGEX_match_greedy_speaker(s) ==
    IF PrefixEnd(s) = -1 \/ SpeakerChoices(s, PrefixEnd(s)) = {} THEN None
    ELSE Some(FilenameGroups(s, PrefixEnd(s), Max(SpeakerChoices(s, PrefixEnd(s)))))

\* LL_FILENAME_REGEX.match(s): None, or the groups 1, 2 and 3 of the match:
\* the shortest speaker (lazy), then the longest word (greedy)
LL_FILENAME_REGEX_match(s) ==
    IF PrefixEnd(s) = -1 \/ SpeakerChoices(s, PrefixEnd(s)) = {} THEN None
    ELSE Some(FilenameGroups(s, PrefixEnd(s), Min(SpeakerChoices(s, PrefixEnd(s)))))

\* title.replace("File:", "", 1) if title.startswith("File:") else title
StripFilePrefix(title) ==
    IF IsPrefix(<<"F", "i", "l", "e", ":">>, title) THEN SliceFrom(title, 5) ELSE title

\* the dict query_commons_for_files appends for the groups m of a filename
Recording(fname, m) == [word |-> m.word, filename |-> fname, speaker |-> m.speaker]

(***************************************************************************)
(* The filenames.  One family is the standard prefix, then a few           *)
(* characters, then an extension: the ways to split speaker and word.  The *)
(* other family puts a filename together from parts of which some are      *)
(* right and some are wrong: the form of a filename.                       *)
(***************************************************************************)
MaxRestLen == 5

StandardPrefix == <<"L", "L", "-", "Q", "1", " ", "(", "m", "a", "l", ")", "-">>

RestChars == {"A", "B", "C", "-", "."}

FilePrefixes == { <<>>, <<"F", "i", "l", "e", ":">> }

SplitExtensions == { <<".", "w", "a", "v">>, <<".", "f", "l", "a", "c">> }

\* fname is the standard prefix, at most MaxRestLen characters and an extension
IsSplitFilename(fname) ==
    \E f \in FilePrefixes : \E k \in 0..MaxRestLen : \E r \in [1..k -> RestChars] :
        \E x \in SplitExtensions : fname = f \o StandardPrefix \o r \o x

FormHeads == { <<"L", "L", "-", "Q">>, <<"L", "L", "-">>, <<"x", "L", "L", "-", "Q">> }

FormDigits == { <<>>, <<"1">>, <<"3", "6", "2", "3", "6">> }

FormBlanks == { <<>>, <<" ">>, <<"\t", " ">>, <<"\n">> }

FormLanguages ==
    { <<"(", "m", "a", "l", ")">>, <<"(", "m", "a", ")">>, <<"(", "M", "a", "l", ")">>,
      <<"(", "m", "a", "l", "x", ")">> }

FormBodies ==
    { <<"-", "A", "-", "B">>, <<"A", "-", "B">>, <<"-", "A", "B">>, <<"-", "-", "B">>,
      <<"-", "A", "-">>, <<"-", "A", "\n", "-", "B">>,
      <<"-", "A", "k", "b", "a", "r", " ", "A", "l", "i", "-", "W">> }

FormExtensions ==
    { <<".", "w", "a", "v">>, <<".", "o", "g", "g">>, <<".", "m", "p", "3">>,
      <<".", "f", "l", "a", "c">>, <<".", "t", "x", "t">>, <<"w", "a", "v">>,
      <<".", "W", "A", "V">> }

FormTails == { <<>>, <<"\n">>, <<"\n", "\n">>, <<"x">> }

\* fname is made of one part of each kind
IsFormFilename(fname) ==
    \E f \in FilePrefixes : \E h \in FormHeads : \E d \in FormDigits : \E b \in FormBlanks :
        \E l \in FormLanguages : \E y \in FormBodies : \E x \in FormExtensions :
            \E t \in FormTails : fname = f \o h \o d \o b \o l \o y \o x \o t

\* the filename of the test test_non_matching
RandomFile ==
    <<"s", "o", "m", "e", "_", "r", "a", "n", "d", "o", "m", "_", "f", "i", "l", "e",
      ".", "w", "a", "v">>

(***************************************************************************)
(* The state machine of the filename parser: a filename is drawn; it is    *)
(* matched against LL_FILENAME_REGEX, or handled as the title of a member  *)
(* of the category by the loop of query_commons_for_files.                 *)
(***************************************************************************)
InitFilename ==
    /\ \/ IsSplitFilename(filename)
       \/ IsFormFilename(filename)
       \/ filename = RandomFile
    /\ pc = "start"
    /\ match = None
    /\ results = <<>>
    /\ NoBot
    /\ wikitext = <<>>
    /\ sections = <<>>
    /\ has_audio = FALSE
    /\ new_wikitext = None

CallFilenameMatch ==
    /\ pc = "start"
    /\ match' = LL_FILENAME_REGEX_match(filename)
    /\ pc' = "matched"
    /\ UNCHANGED <<wikitext, filename, sections, has_audio, new_wikitext, results>>
    /\ UNCHANGED botvars

\* the body of the loop over the members, filename being the member's title
CallQueryCommonsMember ==
    /\ pc = "start"
    /\ match' = LL_FILENAME_REGEX_match(StripFilePrefix(filename))
    /\ results' = IF match' = None THEN results
                  ELSE Append(results, Recording(StripFilePrefix(filename), match'[1]))
    /\ pc' = "queried"
    /\ UNCHANGED <<wikitext, filename, sections, has_audio, new_wikitext>>
    /\ UNCHANGED botvars

NextFilename == CallFilenameMatch \/ CallQueryCommonsMember

SpecFilename == InitFilename /\ [][NextFilename]_vars

(***************************************************************************)
(* Vocabulary of the claims on the filename parser.                        *)
(***************************************************************************)
\* the part of a matching filename between the prefix and the extension:
\* from the end of the prefix to the last "."
FilenameRest(s) == Slice(s, PrefixEnd(s), Max(Occurrences(<<".">>, s)))

\* the places of "-" in rest
Dashes(rest) == {i \in 1..Len(rest) : rest[i] = "-"}

\* the places of rest where a "-" has a non-empty speaker before it and a
\* non-empty word after it
Splits(rest) == {i \in Dashes(rest) : 1 < i /\ i < Len(rest)}

SpeakerAt(rest, i) == SubSeq(rest, 1, i - 1)

WordAt(rest, i) == SubSeq(rest, i + 1, Len(rest))

\* the filename was matched, and it matches
Matched == pc = "matched" /\ match # None

(***************************************************************************)
(* C12  Split point: in a matching filename with more than one "-"         *)
(* between the prefix and the extension, speaker and word are split at the *)
(* last "-" before the extension, unless the word would be empty.          *)
(* As amended: they are split at the first "-" that has a non-empty        *)
(* speaker before it; the word of <PREFIX>-A-B-C.wav is B-C.               *)
(***************************************************************************)
C12_SplitAtLastDash_Original ==
    (Matched /\ Cardinality(Dashes(FilenameRest(filename))) > 1) =>
        LET rest == FilenameRest(filename)
            last == Max(Dashes(rest))
        IN  last < Len(rest) =>
                /\ match[1].speaker = SpeakerAt(rest, last)
                /\ match[1].word = WordAt(rest, last)

C12_SplitAtFirstDash ==
    (Matched /\ Cardinality(Dashes(FilenameRest(filename))) > 1) =>
        LET rest  == FilenameRest(filename)
            first == Min(Splits(rest))
        IN  /\ Splits(rest) # {}
            /\ match[1].speaker = SpeakerAt(rest, first)
            /\ match[1].word = WordAt(rest, first)

\* <PREFIX>-A-B-C.wav: the speaker is A and the word is B-C
C12_Witness ==
    /\ Matched
    /\ FilenameRest(filename) = <<"A", "-", "B", "-", "C">>
    /\ match[1].speaker = <<"A">>
    /\ match[1].word = <<"B", "-", "C">>

(***************************************************************************)
(* C13  Preference: the part of a matching filename between the prefix and *)
(* the extension is the speaker, "-" and the word; among the places where  *)
(* it can be split into a non-empty speaker and a non-empty word, the      *)
(* parser takes the one with the shortest speaker and the longest word;    *)
(* a speaker with a blank in it is returned whole.                         *)
(***************************************************************************)
\* LL-Q36236 (mal)-Akbar Ali-W.wav
C13_AkbarAli ==
    <<"L", "L", "-", "Q", "3", "6", "2", "3", "6", " ", "(", "m", "a", "l", ")", "-",
      "A", "k", "b", "a", "r", " ", "A", "l", "i", "-", "W", ".", "w", "a", "v">>

C13_ShortestSpeakerLongestWord ==
    /\ Matched =>
          LET rest == FilenameRest(filename)
              m    == match[1]
          IN  /\ rest = m.speaker \o <<"-">> \o m.word
              /\ m.speaker # <<>>
              /\ m.word # <<>>
              /\ \A i \in Splits(rest) :
                    /\ Len(m.speaker) <= Len(SpeakerAt(rest, i))
                    /\ Len(m.word) >= Len(WordAt(rest, i))
    /\ (pc = "matched" /\ filename = C13_AkbarAli) =>
          match = Some([speaker   |-> <<"A", "k", "b", "a", "r", " ", "A", "l", "i">>,
                        word      |-> <<"W">>,
                        extension |-> <<"w", "a", "v">>])

\* a filename that can be split at three places
C13_Witness ==
    /\ Matched
    /\ Cardinality(Splits(FilenameRest(filename))) = 3
    /\ Len(match[1].speaker) = 1

(***************************************************************************)
(* C14  No match: a string that has not the form                           *)
(* LL-Q<digits> (<3 lowercase letters>)-<speaker>-<word>.<ext>, ext being  *)
(* wav, ogg, mp3 or flac, is not matched, and query_commons_for_files      *)
(* makes no recording of it.  The blank of the form is read as any run of  *)
(* whitespace, the empty one included; speaker and word are not empty.     *)
(***************************************************************************)
\* s[a:b] is made of characters of S
AllIn(s, a, b, S) == \A i \in (a + 1)..b : s[i] \in S

\* s is "." and one of the extensions from offset p to its end
EndsWithExtensionAt(s, p) ==
    \E x \in 1..Len(Extensions) :
        LiteralAt(s, p, <<".">> \o Extensions[x]) /\ p + 1 + Len(Extensions[x]) = Len(s)

\* s has the form, the digits ending at offset a and the whitespace at offset b
HasFormAt(s, a, b) ==
    /\ LiteralAt(s, 0, <<"L", "L", "-", "Q">>)
    /\ AllIn(s, 4, a, Digits)
    /\ AllIn(s, a, b, Whitespace)
    /\ LiteralAt(s, b, <<"(">>)
    /\ b + 4 <= Len(s)
    /\ AllIn(s, b + 1, b + 4, LowerLetters)
    /\ LiteralAt(s, b + 4, <<")", "-">>)
    /\ \E i \in (b + 7)..Len(s) : \E j \in (i + 2)..Len(s) :
          /\ s[i + 1] = "-"
          /\ EndsWithExtensionAt(s, j)

HasForm(s) == \E a \in 5..Len(s) : \E b \in a..Len(s) : HasFormAt(s, a, b)

C14_NoMatchOutsideForm ==
    /\ (pc = "matched" /\ ~HasForm(filename)) => match = None
    /\ (pc = "queried" /\ ~HasForm(StripFilePrefix(filename))) => results = <<>>


(***************************************************************************)
(* MalayalamPronunciationBot.  The wiki is outside the program: each       *)
(* request to it has one of the outcomes the code distinguishes, an        *)
(* exception and a KeyboardInterrupt included.                             *)
(***************************************************************************)
\* the keys of self.stats
StatKeys ==
    { "total_recordings", "pages_checked", "pages_edited", "pages_skipped_has_audio",
      "pages_skipped_not_found", "pages_skipped_redirect", "pages_skipped_error",
      "pages_created_section", "pages_added_to_existing" }

\* self.stats[key] += 1
Count(st, key) == [st EXCEPT ![key] = @ + 1]

\* str.lower() on the letters of "#redirect"
LowerChar(c) ==
    CASE c = "R" -> "r"
      [] c = "E" -> "e"
      [] c = "D" -> "d"
      [] c = "I" -> "i"
      [] c = "C" -> "c"
      [] c = "T" -> "t"
      [] OTHER -> c

str_lower(s) == [k \in 1..Len(s) |-> LowerChar(s[k])]

\* s.startswith(t)
startswith(s, t) == Len(t) <= Len(s) /\ SubSeq(s, 1, Len(t)) = t

\* the two redirect keywords, the Malayalam one being eleven code points after "#"
REDIRECT_KEYWORD == <<"#", "r", "e", "d", "i", "r", "e", "c", "t">>

REDIRECT_KEYWORD_ML ==
    <<"#", "U+0D24", "U+0D3F", "U+0D30", "U+0D3F", "U+0D1A", "U+0D4D", "U+0D1A", "U+0D41",
      "U+0D35", "U+0D3F", "U+0D1F", "U+0D41", "U+0D15">>

\* is_redirect of _get_page
is_redirect(content) ==
    \/ startswith(str_lower(Strip(content)), REDIRECT_KEYWORD)
    \/ startswith(Strip(content), REDIRECT_KEYWORD_ML)

\* a page dict
PageData(exists, redirect, content) ==
    [exists |-> exists, redirect |-> redirect, content |-> content]

\* _get_page on a reply of the API that decodes: the page dict, or None
_get_page(reply) ==
    IF reply.kind = "missing" THEN Some(PageData(FALSE, FALSE, <<>>))
    ELSE IF reply.kind = "redirect" THEN Some(PageData(TRUE, TRUE, <<>>))
    ELSE IF reply.kind = "norevisions" THEN None
    ELSE Some(PageData(TRUE, is_redirect(reply.content), reply.content))

\* what a call of process_recording leaves: the stats, how it ended ("True",
\* "False", "Exception", "KeyboardInterrupt"), the requests it made, and
\* whether add_pronunciation_to_page was called
Ended(st, how, reqs, transformed) ==
    [stats |-> st, returned |-> how, requests |-> reqs, transformed |-> transformed,
     pending |-> FALSE]

\* process_recording has come to its step 5 with the stats st
ToEdit(st) ==
    [stats |-> st, returned |-> "", requests |-> <<"get_page">>, transformed |-> TRUE,
     pending |-> TRUE]

\* Faulty variant of LiveEdit: a rejected edit is not counted
LiveEditRejectedUncounted(st, edit, sleep) ==
    IF edit = "Exception" \/ edit = "KeyboardInterrupt"
    THEN Ended(st, edit, <<"get_page", "edit">>, TRUE)
    ELSE IF edit = "Success"
    THEN IF sleep = "KeyboardInterrupt"
         THEN Ended(Count(st, "pages_edited"), sleep, <<"get_page", "edit", "sleep">>, TRUE)
         ELSE Ended(Count(st, "pages_edited"), "True", <<"get_page", "edit", "sleep">>, TRUE)
    ELSE Ended(st, "False", <<"get_page", "edit">>, TRUE)

\* step 5 of process_recording when not dry_run: _edit_page, then the sleep
LiveEdit(st, edit, sleep) ==
    IF edit = "Exception" \/ edit = "KeyboardInterrupt"
    THEN Ended(st, edit, <<"get_page", "edit">>, TRUE)
    ELSE IF edit = "Success"
    THEN IF sleep = "KeyboardInterrupt"
         THEN Ended(Count(st, "pages_edited"), sleep, <<"get_page", "edit", "sleep">>, TRUE)
         ELSE Ended(Count(st, "pages_edited"), "True", <<"get_page", "edit", "sleep">>, TRUE)
    ELSE Ended(Count(st, "pages_skipped_error"), "False", <<"get_page", "edit">>, TRUE)

\* Faulty variant of DryEdit: dry_run is not looked at
DryEditIgnored(st, dry, edit, sleep) == LiveEdit(st, edit, sleep)

\* step 5 of process_recording
DryEdit(st, dry, edit, sleep) ==
    IF dry THEN Ended(Count(st, "pages_edited"), "True", <<"get_page">>, TRUE)
    ELSE LiveEdit(st, edit, sleep)

\* step 3 of process_recording: new_text is not None
Changed(st, content) ==
    IF find_pronunciation_section(parse_sections(content)) # None
    THEN ToEdit(Count(st, "pages_added_to_existing"))
    ELSE ToEdit(Count(st, "pages_created_section"))

\* step 2 of process_recording
Transform(st, content, fname) ==
    IF add_pronunciation_to_page(content, fname) = None
    THEN Ended(Count(st, "pages_skipped_has_audio"), "False", <<"get_page">>, TRUE)
    ELSE Changed(st, content)

\* Faulty variant of CheckPage: a redirect is not skipped
CheckPageNoRedirect(st, page_data, fname) ==
    IF page_data = None
    THEN Ended(Count(st, "pages_skipped_error"), "False", <<"get_page">>, FALSE)
    ELSE IF ~page_data[1].exists
    THEN Ended(Count(st, "pages_skipped_not_found"), "False", <<"get_page">>, FALSE)
    ELSE Transform(st, page_data[1].content, fname)

\* step 1 of process_recording, after _get_page has returned page_data
CheckPage(st, page_data, fname) ==
    IF page_data = None
    THEN Ended(Count(st, "pages_skipped_error"), "False", <<"get_page">>, FALSE)
    ELSE IF ~page_data[1].exists
    THEN Ended(Count(st, "pages_skipped_not_found"), "False", <<"get_page">>, FALSE)
    ELSE IF page_data[1].redirect
    THEN Ended(Count(st, "pages_skipped_redirect"), "False", <<"get_page">>, FALSE)
    ELSE Transform(st, page_data[1].content, fname)

\* process_recording(recording) with the stats st, up to its step 4; reply is
\* what the wiki, or the user, does to the query of _get_page
process_recording_to_step_4(st, recording, reply) ==
    IF reply.kind = "Exception" \/ reply.kind = "KeyboardInterrupt"
    THEN Ended(Count(st, "pages_checked"), reply.kind, <<"get_page">>, FALSE)
    ELSE CheckPage(Count(st, "pages_checked"), _get_page(reply), recording.filename)

\* process_recording from its step 5, on a bot with dry_run = dry; edit and
\* sleep are how _edit_page and time.sleep end, if they are called
process_recording_step_5(so_far, dry, edit, sleep) ==
    IF so_far.pending THEN DryEdit(so_far.stats, dry, edit, sleep) ELSE so_far

\* recordings = [r for r in recordings if r["word"] in words_set], which run
\* does when words_filter is neither None nor empty
Filtered(recs, words) ==
    IF words = {} THEN recs ELSE SelectSeq(recs, LAMBDA r : r.word \in words)

\* Faulty variant of Deduplicate: the last recording of a word is kept
RECURSIVE DeduplicateKeepLast(_, _)
DeduplicateKeepLast(recs, seen_words) ==
    IF recs = <<>> THEN <<>>
    ELSE IF \E k \in 2..Len(recs) : recs[k].word = Head(recs).word
    THEN DeduplicateKeepLast(Tail(recs), seen_words)
    ELSE <<Head(recs)>> \o DeduplicateKeepLast(Tail(recs), seen_words)

\* unique_recordings: the loop of run over recordings, from seen_words
RECURSIVE Deduplicate(_, _)
Deduplicate(recs, seen_words) ==
    IF recs = <<>> THEN <<>>
    ELSE IF Head(recs).word \in seen_words
    THEN Deduplicate(Tail(recs), seen_words)
    ELSE <<Head(recs)>> \o Deduplicate(Tail(recs), seen_words \cup {Head(recs).word})

(***************************************************************************)
(* The inputs of the bot: a few recordings of a few words, and what the    *)
(* wiki answers.                                                           *)
(***************************************************************************)
MaxRecordings == 3

Words == {"w1", "w2"}

BotRecordings == [word : Words, filename : Filenames]

RecordingLists == UNION { [1..n -> BotRecordings] : n \in 0..MaxRecordings }

\* words_filter: none, or one word
WordFilters == { {}, {"w1"} }

\* the page texts the wiki holds: a Pronunciation section without audio, one
\* with audio, another section, and the two kinds of redirect page
PageContents ==
    { <<"=", "=">> \o PRONUNCIATION_HEADER \o <<"=", "=", "\n">>,
      <<"{", "{", "a", "u", "d", "i", "o", "|", "x", "}", "}">>,
      <<"=", "=", "x", "=", "=", "\n">>,
      <<" ", "#", "R", "e", "d", "i", "r", "e", "c", "t", " ", "x">>,
      REDIRECT_KEYWORD_ML \o <<" ", "x">> }

\* what the API answers to the query of _get_page; "Exception" is a request
\* that raises, "KeyboardInterrupt" the user's Ctrl-C while it runs
Replies ==
    { [kind |-> k, content |-> <<>>] :
        k \in {"Exception", "KeyboardInterrupt", "missing", "redirect", "norevisions"} }
    \cup { [kind |-> "content", content |-> c] : c \in PageContents }

\* how _edit_page ends: the API's result, or an exception
EditOutcomes == {"Success", "Rejected", "Exception", "KeyboardInterrupt"}

\* how time.sleep ends
SleepOutcomes == {"Slept", "KeyboardInterrupt"}

\* how _login ends
LoginOutcomes == {"Success", "Failed"}

(***************************************************************************)
(* The state machine of the bot: __init__, run up to its loop, one         *)
(* iteration of the loop, print_summary.                                   *)
(***************************************************************************)
InitBot ==
    /\ pc = "new"
    /\ dry_run = TRUE
    /\ recordings = <<>>
    /\ words_filter = {}
    /\ unique_recordings = <<>>
    /\ stats = [k \in StatKeys |-> 0]
    /\ processed = <<>>
    /\ last_call = <<>>
    /\ requests = <<>>
    /\ wikitext = <<>>
    /\ filename = <<>>
    /\ sections = <<>>
    /\ has_audio = FALSE
    /\ new_wikitext = None
    /\ match = None
    /\ results = <<>>

\* __init__: a failed login raises, and no bot is made
Construct ==
    /\ pc = "new"
    /\ \E dry \in BOOLEAN, login \in LoginOutcomes :
          /\ dry_run' = dry
          /\ requests' = IF dry THEN <<>> ELSE <<"login">>
          /\ pc' = IF ~dry /\ login = "Failed" THEN "login_failed" ELSE "constructed"
    /\ stats' = [k \in StatKeys |-> 0]
    /\ UNCHANGED <<recordings, words_filter, unique_recordings, processed, last_call>>
    /\ UNCHANGED textvars

\* run, up to the loop over unique_recordings
CallRun ==
    /\ pc = "constructed"
    /\ \E recs \in RecordingLists, words \in WordFilters :
          /\ recordings' = recs
          /\ words_filter' = words
          /\ unique_recordings' = Deduplicate(Filtered(recs, words), {})
          /\ stats' = [stats EXCEPT !["total_recordings"] = Len(recs)]
    /\ pc' = "loop"
    /\ UNCHANGED <<dry_run, processed, last_call, requests>>
    /\ UNCHANGED textvars

\* Faulty variant of LoopBody: an exception ends the loop as an interrupt does
LoopBodyStopOnError(recording, reply, r) ==
    /\ stats' = IF r.returned = "Exception" THEN Count(r.stats, "pages_skipped_error")
                ELSE r.stats
    /\ pc' = IF r.returned \in {"KeyboardInterrupt", "Exception"} THEN "interrupted"
             ELSE "loop"
    /\ processed' = Append(processed, recording)
    /\ last_call' = [recording |-> recording, reply |-> reply, returned |-> r.returned,
                     transformed |-> r.transformed]
    /\ requests' = requests \o r.requests

\* the body of the loop once process_recording has ended as r says
LoopBody(recording, reply, r) ==
    /\ stats' = IF r.returned = "Exception" THEN Count(r.stats, "pages_skipped_error")
                ELSE r.stats
    /\ pc' = IF r.returned = "KeyboardInterrupt" THEN "interrupted" ELSE "loop"
    /\ processed' = Append(processed, recording)
    /\ last_call' = [recording |-> recording, reply |-> reply, returned |-> r.returned,
                transformed |-> r.transformed]
    /\ requests' = requests \o r.requests

\* an iteration of the loop of run, process_recording being at its step 5
Iteration(recording, reply, so_far) ==
    \E edit \in EditOutcomes, sleep \in SleepOutcomes :
        LoopBody(recording, reply, process_recording_step_5(so_far, dry_run, edit, sleep))

\* one iteration of the loop of run
ProcessRecording ==
    /\ pc = "loop"
    /\ Len(processed) < Len(unique_recordings)
    /\ \E reply \in Replies :
          Iteration(unique_recordings[Len(processed) + 1], reply,
                    process_recording_to_step_4(stats, unique_recordings[Len(processed) + 1],
                                                reply))
    /\ UNCHANGED <<dry_run, recordings, words_filter, unique_recordings>>
    /\ UNCHANGED textvars

\* the end of the loop, or its break, and print_summary
PrintSummary ==
    /\ \/ pc = "interrupted"
       \/ pc = "loop" /\ Len(processed) = Len(unique_recordings)
    /\ pc' = "summary"
    /\ UNCHANGED botvars
    /\ UNCHANGED textvars

NextBot == Construct \/ CallRun \/ ProcessRecording \/ PrintSummary

SpecBot == InitBot /\ [][NextBot]_vars

\* run is sequential code and every request has a timeout: a step that can be
\* taken is taken
SpecBotFair == SpecBot /\ WF_vars(NextBot)


(***************************************************************************)
(* Vocabulary of the properties of the bot.                                *)
(***************************************************************************)
\* run has reached its loop
InRun == pc \in {"loop", "interrupted", "summary"}

\* the places in the input of the recordings that pass the words filter
KeptPlaces ==
    {k \in 1..Len(recordings) : words_filter = {} \/ recordings[k].word \in words_filter}

\* the place of the first recording of word w that passes the filter
FirstPlace(w) == Min({k \in KeptPlaces : recordings[k].word = w})

\* how many times the event e is in the sequence log
CountOf(log, e) == Cardinality({k \in 1..Len(log) : log[k] = e})

(***************************************************************************)
(* C15  In one call of run, process_recording is called at most once for   *)
(* a word, with the first recording of that word in the input that passes  *)
(* the words filter, and the recordings it is called with are in the order *)
(* of the input.                                                           *)
(***************************************************************************)
C15_DeduplicationKeepsFirst ==
    InRun =>
        /\ \A a \in 1..Len(processed) :
              /\ \E k \in KeptPlaces : recordings[k].word = processed[a].word
              /\ processed[a] = recordings[FirstPlace(processed[a].word)]
        /\ \A a, b \in 1..Len(processed) :
              a < b =>
                  /\ processed[a].word # processed[b].word
                  /\ FirstPlace(processed[a].word) < FirstPlace(processed[b].word)

\* two recordings of a word with different files, then another word, all
\* processed
C15_Witness ==
    /\ pc = "summary"
    /\ Len(recordings) = 3
    /\ recordings[1].word = recordings[2].word
    /\ recordings[1].filename # recordings[2].filename
    /\ processed = <<recordings[1], recordings[3]>>


\* this step is a call of process_recording
Called == Len(processed') = Len(processed) + 1

\* the reply of the API was decoded: _get_page returned
Replied(call) == call.reply.kind \notin {"Exception", "KeyboardInterrupt"}

\* the skip counter of a page dict that is None, missing or a redirect, and
\* "" for a page to work on
SkipCounter(page_data) ==
    IF page_data = None THEN "pages_skipped_error"
    ELSE IF ~page_data[1].exists THEN "pages_skipped_not_found"
    ELSE IF page_data[1].redirect THEN "pages_skipped_redirect"
    ELSE ""

(***************************************************************************)
(* C16  When _get_page returns None, a missing page or a redirect,         *)
(* process_recording returns False, makes no request but the page query,   *)
(* does not call add_pronunciation_to_page, and adds one to pages_checked  *)
(* and to the skip counter of the case, and to nothing else; and           *)
(* add_pronunciation_to_page is called only for a page that exists and is  *)
(* no redirect.                                                            *)
(***************************************************************************)
C16_OnlyExistingNonRedirect ==
    [][Called =>
        /\ (Replied(last_call') /\ SkipCounter(_get_page(last_call'.reply)) # "") =>
              /\ last_call'.returned = "False"
              /\ ~last_call'.transformed
              /\ requests' = Append(requests, "get_page")
              /\ stats' = Count(Count(stats, "pages_checked"),
                                SkipCounter(_get_page(last_call'.reply)))
        /\ last_call'.transformed =>
              /\ Replied(last_call')
              /\ SkipCounter(_get_page(last_call'.reply)) = ""]_vars

\* a missing page, then a page whose text is a redirect
C16_Witness ==
    /\ pc = "summary"
    /\ stats["pages_skipped_not_found"] = 1
    /\ stats["pages_skipped_redirect"] = 1
    /\ last_call.reply.kind = "content"
    /\ last_call.returned = "False"


\* add_pronunciation_to_page gives a new text for the page of this call
WouldChange(call) ==
    /\ Replied(call)
    /\ SkipCounter(_get_page(call.reply)) = ""
    /\ add_pronunciation_to_page(call.reply.content, call.recording.filename) # None

(***************************************************************************)
(* C17  With dry_run = true the bot sends no login request and no edit     *)
(* request, whatever the recordings and the wiki's answers; a call of      *)
(* process_recording on a page that would be changed adds one to           *)
(* pages_edited and returns True.                                          *)
(***************************************************************************)
C17_DryRunMakesNoEdit ==
    [][dry_run' =>
        /\ CountOf(requests', "login") = 0
        /\ CountOf(requests', "edit") = 0
        /\ CountOf(requests', "sleep") = 0
        /\ (Called /\ WouldChange(last_call')) =>
              /\ last_call'.returned = "True"
              /\ stats'["pages_edited"] = stats["pages_edited"] + 1
        /\ (Called /\ ~WouldChange(last_call')) =>
              stats'["pages_edited"] = stats["pages_edited"]]_vars

\* a dry run in which two pages would be changed
C17_Witness ==
    /\ dry_run
    /\ pc = "summary"
    /\ stats["pages_edited"] = 2
    /\ WouldChange(last_call)
    /\ last_call.returned = "True"
    /\ requests = <<"get_page", "get_page">>


\* the call that this step makes fails: the page cannot be read, the edit is
\* rejected by the API, or an exception other than the interrupt is raised
FailedCall ==
    /\ Called
    /\ \/ last_call'.returned = "Exception"
       \/ /\ last_call'.returned = "False"
          /\ \/ _get_page(last_call'.reply) = None
             \/ requests'[Len(requests')] = "edit"

\* the loop of run was left by its break
Interrupted == last_call # <<>> /\ last_call.returned = "KeyboardInterrupt"

(***************************************************************************)
(* C18  A call of process_recording that fails (page not read, edit        *)
(* rejected, exception other than a KeyboardInterrupt) adds one to         *)
(* pages_skipped_error and leaves run in its loop; a bot whose login did   *)
(* not fail always reaches print_summary, and reaches it with every unique *)
(* recording processed unless a KeyboardInterrupt ended the loop.          *)
(***************************************************************************)
C18_FailureDoesNotStopBatch ==
    /\ [][FailedCall =>
            /\ stats'["pages_skipped_error"] = stats["pages_skipped_error"] + 1
            /\ pc' = "loop"]_vars
    /\ [](pc = "summary" => (processed = unique_recordings \/ Interrupted))
    /\ [](pc = "interrupted" => Interrupted)
    /\ <>(pc \in {"summary", "login_failed"})

\* the first of two recordings failed, the second was edited
C18_Witness ==
    /\ pc = "summary"
    /\ Len(processed) = 2
    /\ stats["pages_skipped_error"] = 1
    /\ stats["pages_edited"] = 1
    /\ last_call.returned = "True"


(***************************************************************************)
(* Repeated application: the text the editor returned is the page's text   *)
(* when the editor is called on the page again.                            *)
(***************************************************************************)
MaxRepeatPieces == 4

InitRepeat ==
    /\ \/ IsText(wikitext, StructurePieces, MaxRepeatPieces)
       \/ IsText(wikitext, AudioPieces, MaxRepeatPieces)
    /\ filename = <<>>
    /\ pc = "start"
    /\ sections = <<>>
    /\ has_audio = FALSE
    /\ new_wikitext = None
    /\ match = None
    /\ results = <<>>
    /\ NoBot

\* add_pronunciation_to_page on the text that its last call returned;
\* has_audio is page_has_audio of that text
CallAddPronunciationAgain ==
    /\ pc \in {"done", "again"}
    /\ new_wikitext # None
    /\ wikitext' = new_wikitext[1]
    /\ has_audio' = page_has_audio(new_wikitext[1])
    /\ \E f \in Filenames :
          /\ filename' = f
          /\ new_wikitext' = add_pronunciation_to_page(new_wikitext[1], f)
    /\ sections' = <<>>
    /\ pc' = "again"
    /\ UNCHANGED <<match, results>>
    /\ UNCHANGED botvars

NextRepeat == CallAddPronunciationToPage \/ CallAddPronunciationAgain

SpecRepeat == InitRepeat /\ [][NextRepeat]_vars

(***************************************************************************)
(* C19  If add_pronunciation_to_page(d, f1) returns a new document d',     *)
(* then page_has_audio(d') is true and add_pronunciation_to_page(d', f2)   *)
(* returns None for every filename f2: in a sequence of applications to a  *)
(* page, none after the first that changes it changes it.                  *)
(***************************************************************************)
C19_IdempotentUnderRepetition ==
    pc = "again" => (has_audio /\ new_wikitext = None)

\* the page holds the audio line of one file, and the editor was called on
\* it with the other
C19_Witness ==
    /\ pc = "again"
    /\ new_wikitext = None
    /\ \E f \in Filenames :
          /\ f # filename
          /\ Occurrences(build_audio_line(f), wikitext) # {}


\* the places of the edit requests in the log of requests
EditPlaces == {k \in 1..Len(requests) : requests[k] = "edit"}

(***************************************************************************)
(* C20  In live mode, between any two consecutive edit requests of a run   *)
(* there is a sleep of edit_delay, whether the earlier of the two requests *)
(* succeeded or was rejected.                                              *)
(***************************************************************************)
C20_SleepBetweenEditRequests ==
    ~dry_run =>
        \A a, b \in EditPlaces :
            a < b => \E k \in (a + 1)..(b - 1) : requests[k] = "sleep"


\* every call of process_recording made so far has completed: it returned,
\* or it raised an exception that run caught and counted
CallsCompleted == InRun /\ ~Interrupted

\* the sum of the outcome counters
Outcomes(st) ==
    st["pages_edited"] + st["pages_skipped_has_audio"] + st["pages_skipped_not_found"]
        + st["pages_skipped_redirect"] + st["pages_skipped_error"]

(***************************************************************************)
(* C21  After every completed call of process_recording, one whose         *)
(* exception run caught included, pages_checked is the sum of              *)
(* pages_edited and the four skip counters, in dry-run and in live mode:   *)
(* each call adds one to pages_checked and to one outcome counter.         *)
(***************************************************************************)
C21_OutcomeAccounting ==
    /\ [](CallsCompleted =>
            /\ stats["pages_checked"] = Len(processed)
            /\ stats["pages_checked"] = Outcomes(stats))
    /\ [][(Called /\ last_call'.returned # "KeyboardInterrupt") =>
            /\ stats'["pages_checked"] = stats["pages_checked"] + 1
            /\ Outcomes(stats') = Outcomes(stats) + 1]_vars

\* a live run: an edit that the API rejected, then a call that raised
C21_Witness ==
    /\ ~dry_run
    /\ pc = "summary"
    /\ stats["pages_checked"] = 2
    /\ stats["pages_skipped_error"] = 2
    /\ requests = <<"login", "get_page", "edit", "get_page">>
    /\ last_call.returned = "Exception"


(***************************************************************************)
(* C22  After every completed call of process_recording, pages_edited is   *)
(* the sum of pages_created_section and pages_added_to_existing, in        *)
(* dry-run mode and in live mode, also when an edit request is rejected by *)
(* the API or raises.                                                      *)
(***************************************************************************)
C22_EditBreakdown ==
    CallsCompleted =>
        stats["pages_edited"]
            = stats["pages_created_section"] + stats["pages_added_to_existing"]

====
